---- MODULE Spec2Model ----
(***************************************************************************)
(* torchsample/utils.py: the index grid (th_iterproduct), the affine       *)
(* coordinate mappers (th_affine_2d, th_affine_3d) and the resamplers      *)
(* (th_nearest_interp_2d/3d, th_bilinear_interp_2d, th_trilinear_interp_3d)*)
(*                                                                         *)
(* A tensor is its shape <<C, n_1, .., n_D>> and its contiguous row-major  *)
(* buffer.  Float coordinates are exact fixed-point numbers: a coordinate  *)
(* is an integer count of 1/Q pixel, a matrix entry an integer count of    *)
(* 1/2, so every value the code computes on these inputs is a small dyadic *)
(* rational and float32 arithmetic on it is exact.  A multilinear output   *)
(* value is an integer count of 1/Q^D.                                     *)
(***************************************************************************)
EXTENDS Integers, Sequences, FiniteSets

VARIABLES
    pc,          \* "call" | "dispatch" | "done": position inside th_affine_2d / th_affine_3d
    dim,         \* 2: th_affine_2d was called, 3: th_affine_3d
    shape,       \* x.size(): <<C, H, W>> or <<C, D, H, W>>
    x,           \* the source tensor's buffer (row-major, contiguous)
    matrix,      \* the transform matrix, D rows of D+1 entries, in halves
    mode,        \* the mode string
    center,      \* the center flag
    coords,      \* th_iterproduct(...) of the spatial sizes (line 88 / 180), integers
    new_coords,  \* the mapped coordinates handed to the resampler, in 1/Q
    rt,          \* the torch runtime the resampler ran on ("none" before it runs)
    clamped,     \* per coordinate, per axis: the coordinate after clamp (and round), in 1/Q
    fracs,       \* per coordinate, per axis: xd, yd, zd in 1/Q (multilinear only)
    terms,       \* per coordinate: the gathers, [ix |-> flat offset, w |-> weight]
    outcome,     \* "none" | "tensor" | "IndexError" | "RuntimeError" | "UnboundLocalError"
    out          \* the returned tensor's buffer (<<>> when no tensor is returned)

vars == <<pc, dim, shape, x, matrix, mode, center, coords, new_coords, rt,
          clamped, fracs, terms, outcome, out>>

---------------------------------------------------------------------------
(* Bounds of the model *)

MaxChan == 2
MaxSize2 == 4
MaxSize3 == 3

(* Coordinates are counted in 1/Q pixel *)
Q == 4

---------------------------------------------------------------------------
(* Arithmetic helpers *)

RECURSIVE Prod(_)
Prod(s) == IF s = <<>> THEN 1 ELSE Head(s) * Prod(Tail(s))

RECURSIVE SeqSum(_)
SeqSum(s) == IF s = <<>> THEN 0 ELSE Head(s) + SeqSum(Tail(s))

Min(a, b) == IF a < b THEN a ELSE b
Max(a, b) == IF a > b THEN a ELSE b

(* tensor.stride() of a contiguous tensor of this size *)
stride(sz) == [i \in 1..Len(sz) |-> Prod(SubSeq(sz, i + 1, Len(sz)))]

(* tensor.numel() *)
numel(sz) == Prod(sz)

---------------------------------------------------------------------------
(* The two torch runtimes the module runs on.  They differ in round() on a *)
(* tie, in clamp() when min > max, and in indexing with a negative index.  *)

legacy == [name |-> "legacy", tie |-> "away", clamp |-> "minfirst", wrap |-> FALSE]
modern == [name |-> "modern", tie |-> "even", clamp |-> "minmax", wrap |-> TRUE]
Runtimes == {legacy, modern}

(* torch.clamp(v, lo, hi) *)
clamp(v, lo, hi, r) ==
    IF r.clamp = "minmax"
    THEN Min(Max(v, lo), hi)
    ELSE IF v < lo THEN lo ELSE IF v > hi THEN hi ELSE v

(* tensor.floor() of a value in 1/Q: an integer *)
floor(v) == v \div Q

(* tensor.round() of a value in 1/Q: an integer *)
round(v, r) ==
    LET f == v \div Q
        m == v % Q
    IN  IF 2 * m < Q THEN f
        ELSE IF 2 * m > Q THEN f + 1
        ELSE IF r.tie = "away" THEN (IF v >= 0 THEN f + 1 ELSE f)
        ELSE (IF f % 2 = 0 THEN f ELSE f + 1)

(* flat[i] for an integer index tensor: is the index accepted *)
index_ok(n, i, r) == (0 <= i /\ i < n) \/ (r.wrap /\ -n <= i /\ i < 0)

(* flat[i], i accepted *)
index(flat, i) == flat[(IF i < 0 THEN i + Len(flat) ELSE i) + 1]

---------------------------------------------------------------------------
(* th_flatten, th_c_flatten, th_iterproduct *)

(* x.contiguous().view(-1): the tensor is held as its contiguous buffer *)
th_flatten(sz, data) == data

th_c_flatten(sz, data) ==
    LET n == Prod(Tail(sz))
    IN  [c \in 1..sz[1] |-> SubSeq(data, (c - 1) * n + 1, c * n)]

(* np.indices(args): component d of the grid at the multi-index of C-order *)
(* offset k; reshape((len(args), -1)) keeps that order; .T makes the rows  *)
th_iterproduct_fortran(args) ==
    [k \in 1..Prod(args) |->
        [d \in 1..Len(args) |-> ((k - 1) \div Prod(SubSeq(args, 1, d - 1))) % args[d]]]

th_iterproduct(args) ==
    [k \in 1..Prod(args) |->
        [d \in 1..Len(args) |-> ((k - 1) \div stride(args)[d]) % args[d]]]

---------------------------------------------------------------------------
(* th_affine_2d / th_affine_3d: lines 84-101 / 176-198                     *)

(* x.size(i) / 2. + 0.5, in halves *)
center_offset(n) == n + 1

(* coords (integers) -> new_coords (1/Q); A and b in halves *)
th_affine_2d_coords(sz, mat, ctr) ==
    LET grid == th_iterproduct(<<sz[2], sz[3]>>)
        off(i) == IF ctr THEN center_offset(sz[i + 1]) ELSE 0
        c(k, i) == 2 * grid[k][i] - off(i)
    IN  [k \in DOMAIN grid |->
            [i \in 1..2 |->
                c(k, 1) * mat[i][1] + c(k, 2) * mat[i][2]
                + 2 * mat[i][3] + 2 * off(i)]]

th_affine_3d_coords(sz, mat, ctr) ==
    LET grid == th_iterproduct(<<sz[2], sz[3], sz[4]>>)
        off(i) == IF ctr THEN center_offset(sz[i + 1]) ELSE 0
        c(k, i) == 2 * grid[k][i] - off(i)
    IN  [k \in DOMAIN grid |->
            [i \in 1..3 |->
                c(k, 1) * mat[i][1] + c(k, 2) * mat[i][2] + c(k, 3) * mat[i][3]
                + 2 * mat[i][4] + 2 * off(i)]]

(* the if / elif on mode, lines 104-109: which resampler binds x_transformed *)
th_affine_2d_default(m) ==
    IF m = "nearest" THEN "th_nearest_interp_2d" ELSE "th_bilinear_interp_2d"

th_affine_2d_select(m) ==
    IF m = "nearest" THEN "th_nearest_interp_2d"
    ELSE IF m = "bilinear" THEN "th_bilinear_interp_2d"
    ELSE "unbound"

(* lines 201-206 *)
th_affine_3d_select(m) ==
    IF m = "nearest" THEN "th_nearest_interp_3d"
    ELSE IF m = "trilinear" THEN "th_trilinear_interp_3d"
    ELSE "unbound"

---------------------------------------------------------------------------
(* The resamplers.  Each returns what the call leaves behind:              *)
(* [clamped, fracs, terms, outcome, out].                                  *)

(* x.view_as(input): the gathered values reinterpreted under input's shape *)
view_as(vals, sz) ==
    IF Len(vals) = numel(sz)
    THEN [outcome |-> "tensor", out |-> vals]
    ELSE [outcome |-> "RuntimeError", out |-> <<>>]

(* lines 112-128 *)
th_nearest_interp_2d(sz, data, crd, r) ==
    LET st == stride(sz)
        at(p) ==
            LET c1 == round(clamp(p[1], 0, Q * (sz[2] - 1), r), r)
                c2 == round(clamp(p[2], 0, Q * (sz[3] - 1), r), r)
            IN  [cl |-> <<Q * c1, Q * c2>>, idx |-> c1 * st[2] + c2 * st[3]]
        cells == [k \in DOMAIN crd |-> at(crd[k])]
        input_flat == th_c_flatten(sz, data)
        ok == \A k \in DOMAIN crd : index_ok(Len(input_flat[1]), cells[k].idx, r)
        mapped_vals == [j \in 1..(sz[1] * Len(crd)) |->
                          index(input_flat[((j - 1) \div Len(crd)) + 1],
                                cells[((j - 1) % Len(crd)) + 1].idx)]
        res == IF ok THEN view_as(mapped_vals, sz)
               ELSE [outcome |-> "IndexError", out |-> <<>>]
    IN  [clamped |-> [k \in DOMAIN crd |-> cells[k].cl],
         fracs   |-> <<>>,
         terms   |-> [k \in DOMAIN crd |-> <<[ix |-> cells[k].idx, w |-> 1]>>],
         outcome |-> res.outcome,
         out     |-> res.out]

(* lines 209-225 *)
th_nearest_interp_3d(sz, data, crd, r) ==
    LET st == stride(sz)
        at(p) ==
            LET c1 == round(clamp(p[1], 0, Q * (sz[2] - 1), r), r)
                c2 == round(clamp(p[2], 0, Q * (sz[3] - 1), r), r)
                c3 == round(clamp(p[3], 0, Q * (sz[4] - 1), r), r)
            IN  [cl |-> <<Q * c1, Q * c2, Q * c3>>,
                 idx |-> c1 * st[2] + c2 * st[3] + c3 * st[4]]
        cells == [k \in DOMAIN crd |-> at(crd[k])]
        input_flat == th_flatten(sz, data)
        ok == \A k \in DOMAIN crd : index_ok(Len(input_flat), cells[k].idx, r)
        mapped_vals == [k \in DOMAIN crd |-> index(input_flat, cells[k].idx)]
        res == IF ok THEN view_as(mapped_vals, sz)
               ELSE [outcome |-> "IndexError", out |-> <<>>]
    IN  [clamped |-> [k \in DOMAIN crd |-> cells[k].cl],
         fracs   |-> <<>>,
         terms   |-> [k \in DOMAIN crd |-> <<[ix |-> cells[k].idx, w |-> 1]>>],
         outcome |-> res.outcome,
         out     |-> res.out]

(* lines 164-167: the weights of vals_00, vals_10, vals_01, vals_11 *)
bilinear_weights_slip(xd, yd) ==
    LET xm1 == Q - xd
        ym1 == Q - yd
    IN  <<xm1 * ym1, xd * ym1, xd * yd, xd * yd>>

bilinear_weights(xd, yd) ==
    LET xm1 == Q - xd
        ym1 == Q - yd
    IN  <<xm1 * ym1, xd * ym1, xm1 * yd, xd * yd>>

(* lines 273-280: the weights of vals_000, 100, 010, 001, 101, 011, 110, 111 *)
trilinear_weights(xd, yd, zd) ==
    LET xm1 == Q - xd
        ym1 == Q - yd
        zm1 == Q - zd
    IN  <<xm1 * ym1 * zm1, xd * ym1 * zm1, xm1 * yd * zm1, xm1 * ym1 * zd,
          xd * ym1 * zd, xm1 * yd * zd, xd * yd * zm1, xd * yd * zd>>

(* the gathers done, summed with their weights, and viewed as the input *)
accumulate(sz, data, trm, r) ==
    LET input_flat == th_flatten(sz, data)
        ok == \A k \in DOMAIN trm : \A j \in DOMAIN trm[k] :
                 index_ok(Len(input_flat), trm[k][j].ix, r)
        x_mapped == [k \in DOMAIN trm |->
                       SeqSum([j \in DOMAIN trm[k] |->
                                 index(input_flat, trm[k][j].ix) * trm[k][j].w])]
    IN  IF ok THEN view_as(x_mapped, sz)
        ELSE [outcome |-> "IndexError", out |-> <<>>]

(* lines 131-169 *)
th_bilinear_interp_2d(sz, data, crd, r) ==
    LET st == stride(sz)
        at(p) ==
            LET xc == clamp(p[1], 0, Q * (sz[2] - 2), r)
                x0 == floor(xc)
                x1 == x0 + 1
                yc == clamp(p[2], 0, Q * (sz[3] - 2), r)
                y0 == floor(yc)
                y1 == y0 + 1
                xd == xc - Q * x0
                yd == yc - Q * y0
                x0_ix == x0 * st[2]
                x1_ix == x1 * st[2]
                y0_ix == y0 * st[3]
                y1_ix == y1 * st[3]
                ixs == <<x0_ix + y0_ix, x1_ix + y0_ix, x0_ix + y1_ix, x1_ix + y1_ix>>
                ws == bilinear_weights(xd, yd)
            IN  [cl |-> <<xc, yc>>, fr |-> <<xd, yd>>,
                 tm |-> [j \in 1..4 |-> [ix |-> ixs[j], w |-> ws[j]]]]
        cells == [k \in DOMAIN crd |-> at(crd[k])]
        trm == [k \in DOMAIN crd |-> cells[k].tm]
        res == accumulate(sz, data, trm, r)
    IN  [clamped |-> [k \in DOMAIN crd |-> cells[k].cl],
         fracs   |-> [k \in DOMAIN crd |-> cells[k].fr],
         terms   |-> trm,
         outcome |-> res.outcome,
         out     |-> res.out]

(* lines 229-282 *)
th_trilinear_interp_3d(sz, data, crd, r) ==
    LET st == stride(sz)
        at(p) ==
            LET xc == clamp(p[1], 0, Q * (sz[2] - 2), r)
                x0 == floor(xc)
                x1 == x0 + 1
                yc == clamp(p[2], 0, Q * (sz[3] - 2), r)
                y0 == floor(yc)
                y1 == y0 + 1
                zc == clamp(p[3], 0, Q * (sz[4] - 2), r)
                z0 == floor(zc)
                z1 == z0 + 1
                xd == xc - Q * x0
                yd == yc - Q * y0
                zd == zc - Q * z0
                x0_ix == x0 * st[2]
                x1_ix == x1 * st[2]
                y0_ix == y0 * st[3]
                y1_ix == y1 * st[3]
                z0_ix == z0 * st[4]
                z1_ix == z1 * st[4]
                ixs == <<x0_ix + y0_ix + z0_ix, x1_ix + y0_ix + z0_ix,
                         x0_ix + y1_ix + z0_ix, x0_ix + y0_ix + z1_ix,
                         x1_ix + y0_ix + z1_ix, x0_ix + y1_ix + z1_ix,
                         x1_ix + y1_ix + z0_ix, x1_ix + y1_ix + z1_ix>>
                ws == trilinear_weights(xd, yd, zd)
            IN  [cl |-> <<xc, yc, zc>>, fr |-> <<xd, yd, zd>>,
                 tm |-> [j \in 1..8 |-> [ix |-> ixs[j], w |-> ws[j]]]]
        cells == [k \in DOMAIN crd |-> at(crd[k])]
        trm == [k \in DOMAIN crd |-> cells[k].tm]
        res == accumulate(sz, data, trm, r)
    IN  [clamped |-> [k \in DOMAIN crd |-> cells[k].cl],
         fracs   |-> [k \in DOMAIN crd |-> cells[k].fr],
         terms   |-> trm,
         outcome |-> res.outcome,
         out     |-> res.out]

---------------------------------------------------------------------------
(* Inputs *)

Modes == {"nearest", "bilinear", "trilinear", "linear"}

Shapes2 == {<<c, h, w>> : c \in 1..MaxChan, h \in 1..MaxSize2, w \in 1..MaxSize2}
Shapes3 == {<<c, d, h, w>> : c \in 1..MaxChan, d \in 1..MaxSize3,
                             h \in 1..MaxSize3, w \in 1..MaxSize3}

(* source buffers: every element distinct, or every channel constant *)
Fills == {"distinct", "channel"}
Fill(kind, sz) ==
    [k \in 1..numel(sz) |->
        IF kind = "channel" THEN (k - 1) \div Prod(Tail(sz))
        ELSE (k - 1) * (k - 1) + 1]

(* linear parts, in halves *)
Identity2 == <<<<2, 0>>, <<0, 2>>>>
Rot90 == <<<<0, -2>>, <<2, 0>>>>
Rot180 == <<<<-2, 0>>, <<0, -2>>>>
Rot270 == <<<<0, 2>>, <<-2, 0>>>>
Linear2 == {Identity2, Rot90, Rot180, Rot270,
            <<<<1, 0>>, <<0, 1>>>>, <<<<2, 1>>, <<0, 2>>>>, <<<<4, 0>>, <<0, 3>>>>}
Shifts2 == {<<0, 0>>, <<-3, 1>>, <<1, -3>>, <<5, 5>>}
Matrices2 == {<<a[1] \o <<b[1]>>, a[2] \o <<b[2]>>>> : a \in Linear2, b \in Shifts2}

Identity3 == <<<<2, 0, 0>>, <<0, 2, 0>>, <<0, 0, 2>>>>
Linear3 == {Identity3,
            <<<<0, -2, 0>>, <<2, 0, 0>>, <<0, 0, 2>>>>,
            <<<<1, 0, 0>>, <<0, 1, 0>>, <<0, 0, 1>>>>,
            <<<<-2, 0, 1>>, <<0, 3, 0>>, <<0, 0, -2>>>>}
Shifts3 == {<<0, 0, 0>>, <<-3, 1, 5>>, <<1, 1, 1>>}
Matrices3 == {<<a[1] \o <<b[1]>>, a[2] \o <<b[2]>>, a[3] \o <<b[3]>>>> :
                 a \in Linear3, b \in Shifts3}

---------------------------------------------------------------------------
(* The state machine: one call of th_affine_2d or th_affine_3d *)

Init ==
    /\ pc = "call"
    /\ dim \in {2, 3}
    /\ shape \in (IF dim = 2 THEN Shapes2 ELSE Shapes3)
    /\ \E kind \in (IF dim = 2 THEN Fills ELSE {"distinct"}) : x = Fill(kind, shape)
    /\ matrix \in (IF dim = 2 THEN Matrices2 ELSE Matrices3)
    /\ mode \in Modes
    /\ center \in BOOLEAN
    /\ coords = <<>>
    /\ new_coords = <<>>
    /\ rt = "none"
    /\ clamped = <<>>
    /\ fracs = <<>>
    /\ terms = <<>>
    /\ outcome = "none"
    /\ out = <<>>

inputs == <<dim, shape, x, matrix, mode, center>>
locals == <<rt, clamped, fracs, terms, outcome, out>>

(* th_affine_2d, lines 84-101 *)
Affine2d ==
    /\ pc = "call" /\ dim = 2
    /\ coords' = th_iterproduct(<<shape[2], shape[3]>>)
    /\ new_coords' = th_affine_2d_coords(shape, matrix, center)
    /\ pc' = "dispatch"
    /\ UNCHANGED <<inputs, locals>>

(* th_affine_3d, lines 176-198 *)
Affine3d ==
    /\ pc = "call" /\ dim = 3
    /\ coords' = th_iterproduct(<<shape[2], shape[3], shape[4]>>)
    /\ new_coords' = th_affine_3d_coords(shape, matrix, center)
    /\ pc' = "dispatch"
    /\ UNCHANGED <<inputs, locals>>

Resampled(res, r) ==
    /\ rt' = r.name
    /\ clamped' = res.clamped
    /\ fracs' = res.fracs
    /\ terms' = res.terms
    /\ outcome' = res.outcome
    /\ out' = res.out
    /\ pc' = "done"
    /\ UNCHANGED <<inputs, coords, new_coords>>

(* lines 104-105 and 109 *)
Nearest2d ==
    /\ pc = "dispatch" /\ dim = 2
    /\ th_affine_2d_select(mode) = "th_nearest_interp_2d"
    /\ \E r \in Runtimes : Resampled(th_nearest_interp_2d(shape, x, new_coords, r), r)

(* lines 106-107 and 109 *)
Bilinear2d ==
    /\ pc = "dispatch" /\ dim = 2
    /\ th_affine_2d_select(mode) = "th_bilinear_interp_2d"
    /\ \E r \in Runtimes : Resampled(th_bilinear_interp_2d(shape, x, new_coords, r), r)

(* line 109 with x_transformed never bound *)
Unbound2d ==
    /\ pc = "dispatch" /\ dim = 2
    /\ th_affine_2d_select(mode) = "unbound"
    /\ outcome' = "UnboundLocalError"
    /\ pc' = "done"
    /\ UNCHANGED <<inputs, coords, new_coords, rt, clamped, fracs, terms, out>>

(* lines 201-202 and 206 *)
Nearest3d ==
    /\ pc = "dispatch" /\ dim = 3
    /\ th_affine_3d_select(mode) = "th_nearest_interp_3d"
    /\ \E r \in Runtimes : Resampled(th_nearest_interp_3d(shape, x, new_coords, r), r)

(* lines 203-204 and 206 *)
Trilinear3d ==
    /\ pc = "dispatch" /\ dim = 3
    /\ th_affine_3d_select(mode) = "th_trilinear_interp_3d"
    /\ \E r \in Runtimes : Resampled(th_trilinear_interp_3d(shape, x, new_coords, r), r)

(* line 206 with x_transformed never bound *)
Unbound3d ==
    /\ pc = "dispatch" /\ dim = 3
    /\ th_affine_3d_select(mode) = "unbound"
    /\ outcome' = "UnboundLocalError"
    /\ pc' = "done"
    /\ UNCHANGED <<inputs, coords, new_coords, rt, clamped, fracs, terms, out>>

Next ==
    \/ Affine2d
    \/ Affine3d
    \/ Nearest2d
    \/ Bilinear2d
    \/ Unbound2d
    \/ Nearest3d
    \/ Trilinear3d
    \/ Unbound3d

Spec == Init /\ [][Next]_vars

---------------------------------------------------------------------------
(* What the properties below speak of *)

Spatial == Tail(shape)
NSpatial == Prod(Spatial)
Errors == {"IndexError", "RuntimeError", "UnboundLocalError"}
Recognized ==
    \/ dim = 2 /\ mode \in {"nearest", "bilinear"}
    \/ dim = 3 /\ mode \in {"nearest", "trilinear"}
IsLinear ==
    \/ dim = 2 /\ mode = "bilinear"
    \/ dim = 3 /\ mode = "trilinear"
ValidSizes == \A i \in 1..dim : Spatial[i] >= 2
ZeroShift == \A i \in 1..dim : matrix[i][dim + 1] = 0
LinearPart == [i \in 1..dim |-> SubSeq(matrix[i], 1, dim)]
IsIdentity == ZeroShift /\ LinearPart = (IF dim = 2 THEN Identity2 ELSE Identity3)

(* Q^D: the denominator of a multilinear output value and of a corner weight *)
RECURSIVE Pow(_, _)
Pow(b, e) == IF e = 0 THEN 1 ELSE b * Pow(b, e - 1)
Den == IF IsLinear THEN Pow(Q, dim) ELSE 1

(* row-major flat offset of a coordinate tuple, by Horner's rule *)
RECURSIVE RowMajor(_, _, _)
RowMajor(t, sizes, d) ==
    IF d = 0 THEN 0 ELSE RowMajor(t, sizes, d - 1) * sizes[d] + t[d]

(* the source value of channel c (1-based) at spatial offset o (0-based) *)
Src(c, o) == x[(c - 1) * NSpatial + o + 1]
Out(c, k) == out[(c - 1) * NSpatial + k]

(* the specified multilinear value at mapped coordinate p (in 1/Q), channel c *)
SpecClamp(p, i) == Min(Max(p[i], 0), Q * (Spatial[i] - 2))
SpecFloor(p, i) == SpecClamp(p, i) \div Q
SpecFrac(p, i) == SpecClamp(p, i) - Q * SpecFloor(p, i)
Corner(p, S) == [i \in 1..dim |-> SpecFloor(p, i) + (IF i \in S THEN 1 ELSE 0)]
RECURSIVE CornerWeight(_, _, _)
CornerWeight(p, S, d) ==
    IF d = 0 THEN 1
    ELSE CornerWeight(p, S, d - 1) * (IF d \in S THEN SpecFrac(p, d) ELSE Q - SpecFrac(p, d))
RECURSIVE SumOver(_, _, _)
SumOver(Ss, p, c) ==
    IF Ss = {} THEN 0
    ELSE LET S == CHOOSE S \in Ss : TRUE
         IN  Src(c, RowMajor(Corner(p, S), Spatial, dim)) * CornerWeight(p, S, dim)
             + SumOver(Ss \ {S}, p, c)
SpecValue(p, c) == SumOver(SUBSET (1..dim), p, c)

---------------------------------------------------------------------------
(* C1: with A = identity, b = 0, center = false and mode nearest the mapper *)
(* returns a tensor equal to the input, element for element, for 2 and 3    *)
(* spatial axes and every channel count.                                    *)
C1_IdentityAffine ==
    (pc = "done" /\ mode = "nearest" /\ ~center /\ IsIdentity)
        => (outcome = "tensor" /\ out = x)

(* C2: on a valid input (recognized mode; all spatial sizes >= 2 when the   *)
(* mode is multilinear) the mapper returns a tensor with the input's        *)
(* channel count and spatial shape, for every matrix and both center flags. *)
C2_ShapePreserved ==
    (pc = "done" /\ Recognized /\ (IsLinear => ValidSizes))
        => (outcome = "tensor" /\ Len(out) = numel(shape))

(* C3: the index grid holds prod(n_i) tuples, every tuple of                *)
(* range(n_1) x .. x range(n_D) exactly once, the k-th tuple being the one  *)
(* whose row-major flat offset is k; sizes (2,3) give                       *)
(* (0,0),(0,1),(0,2),(1,0),(1,1),(1,2).                                     *)
C3_GridOrdering ==
    pc # "call" =>
        /\ Len(coords) = NSpatial
        /\ \A k \in 1..Len(coords) :
              /\ Len(coords[k]) = dim
              /\ \A d \in 1..dim : coords[k][d] \in 0..(Spatial[d] - 1)
              /\ RowMajor(coords[k], Spatial, dim) = k - 1
        /\ \A j, k \in 1..Len(coords) : coords[j] = coords[k] => j = k
        /\ Spatial = <<2, 3>> =>
              coords = <<<<0, 0>>, <<0, 1>>, <<0, 2>>, <<1, 0>>, <<1, 1>>, <<1, 2>>>>
C3_Witness ==
    pc = "dispatch" /\ Spatial = <<2, 3>> /\ Len(coords) = 6

(* C4: with all spatial sizes >= 2 the multilinear resampler returns, at    *)
(* every grid position and for each channel c, the sum over the 2^D corners *)
(* of the clamped coordinate of channel c's source value at the corner      *)
(* times the product of frac_i (ceil) or 1 - frac_i (floor).                *)
C4_MultilinearValue ==
    (pc = "done" /\ IsLinear /\ ValidSizes)
        => /\ outcome = "tensor"
           /\ \A c \in 1..shape[1] : \A k \in 1..NSpatial :
                 Out(c, k) = SpecValue(new_coords[k], c)

(* C5: with all spatial sizes >= 2, at every coordinate of the multilinear  *)
(* resampler each frac_i and 1 - frac_i lies in [0, 1], the 2^D corner      *)
(* weights sum to 1, and each of the 2^D corners is gathered exactly once,  *)
(* with its own weight.                                                     *)
C5_WeightSum ==
    (pc = "done" /\ IsLinear /\ ValidSizes) =>
        \A k \in 1..Len(terms) :
            /\ \A i \in 1..dim : fracs[k][i] \in 0..Q /\ (Q - fracs[k][i]) \in 0..Q
            /\ Len(terms[k]) = Pow(2, dim)
            /\ SeqSum([j \in 1..Len(terms[k]) |-> terms[k][j].w]) = Pow(Q, dim)
            /\ \A S \in SUBSET (1..dim) :
                  LET o == RowMajor([i \in 1..dim |->
                                        (clamped[k][i] \div Q) + (IF i \in S THEN 1 ELSE 0)],
                                    Spatial, dim)
                      hits == {j \in 1..Len(terms[k]) : terms[k][j].ix = o}
                  IN  /\ Cardinality(hits) = 1
                      /\ \A j \in hits :
                            terms[k][j].w =
                                Prod([i \in 1..dim |->
                                        IF i \in S THEN fracs[k][i] ELSE Q - fracs[k][i]])
C5_Witness ==
    /\ pc = "done" /\ IsLinear /\ ValidSizes /\ dim = 3
    /\ \E k \in 1..Len(fracs) : \A i \in 1..dim : 0 < fracs[k][i] /\ fracs[k][i] < Q
    /\ \E k \in 1..Len(clamped) : clamped[k] # new_coords[k]

(* C6: every mapped coordinate is clamped to [0, size_i - 1] before         *)
(* rounding (nearest) or to [0, size_i - 2] before flooring (multilinear):  *)
(* one below 0 resolves as 0, one above the bound as the bound, and every   *)
(* flat offset read, the +1 neighbours included, lies in                    *)
(* [0, prod(spatial sizes)).                                                *)
C6_BoundaryClamp ==
    (pc = "done" /\ Recognized) =>
        \A k \in 1..Len(clamped) :
            /\ \A i \in 1..dim :
                  LET hi == Q * (Spatial[i] - (IF IsLinear THEN 2 ELSE 1))
                  IN  /\ 0 <= clamped[k][i] /\ clamped[k][i] <= hi
                      /\ new_coords[k][i] < 0 => clamped[k][i] = 0
                      /\ new_coords[k][i] > hi => clamped[k][i] = hi
            /\ \A j \in 1..Len(terms[k]) :
                  0 <= terms[k][j].ix /\ terms[k][j].ix < NSpatial

(* C7: a 2-channel 2D tensor with channel 0 all zeros and channel 1 all     *)
(* ones comes back, for any matrix, either center flag and either mode,     *)
(* with channel 0 all zeros and channel 1 all ones.                         *)
C7_ChannelIndependence ==
    (/\ pc = "done" /\ dim = 2 /\ shape[1] = 2 /\ x = Fill("channel", shape)
     /\ Recognized /\ (IsLinear => ValidSizes))
        => /\ outcome = "tensor"
           /\ \A k \in 1..NSpatial : Out(1, k) = 0 /\ Out(2, k) = Den

(* C8: a pure rotation by a multiple of 90 degrees with center = true on an *)
(* even-sized square 2D tensor returns, at the center pixel, the source     *)
(* value of that pixel.  Stated for one channel, and for whichever of the   *)
(* four pixels around the geometric center is taken as the center pixel.    *)
C8_CenterRoundTrip ==
    (/\ pc = "done" /\ dim = 2 /\ center /\ ZeroShift /\ Recognized
     /\ LinearPart \in {Identity2, Rot90, Rot180, Rot270}
     /\ shape[1] = 1 /\ shape[2] = shape[3] /\ shape[2] % 2 = 0)
        => /\ outcome = "tensor"
           /\ \E p \in {shape[2] \div 2 - 1, shape[2] \div 2} \X
                       {shape[2] \div 2 - 1, shape[2] \div 2} :
                 LET o == RowMajor(p, Spatial, 2)
                 IN  Out(1, o + 1) = Den * Src(1, o)

(* C9: with size 1 along a spatial axis the multilinear resampler ends in   *)
(* an error and returns no tensor.                                          *)
C9_DegenerateAxis ==
    (pc = "done" /\ IsLinear /\ ~ValidSizes)
        => (outcome \in Errors /\ out = <<>>)

(* C10: called with a mode that is not one of its recognized modes, the     *)
(* mapper (2D or 3D) ends in an error, returns no tensor, runs no           *)
(* resampler, and leaves the source tensor and the matrix unchanged.        *)
C10_UnrecognizedMode ==
    /\ []((pc = "done" /\ ~Recognized)
            => (outcome \in Errors /\ out = <<>> /\ rt = "none" /\ terms = <<>>))
    /\ [][x' = x /\ matrix' = matrix /\ shape' = shape]_vars
C10_Witness ==
    pc = "done" /\ ~Recognized /\ dim = 2 /\ mode = "linear" /\ ValidSizes

====
